---- MODULE Spec2Model ----
(***************************************************************************)
(* Model of the Power BI Embedded AI backend (src/backend).                *)
(*                                                                         *)
(* The components are modelled with a specification each:                  *)
(*   SpecQuery    the Query Executor tool (ai/tools/execute_dax_query_tool)*)
(*   SpecService  the AgentService chat orchestrator (agent_service.py)    *)
(*   SpecApp      the FastAPI request surface (main.py), chat endpoints,   *)
(*                with the DaxAgent it imports (backend/dax_agent.py)      *)
(*   SpecPbi      the same process, Power BI endpoints and the cached      *)
(*                token descriptor                                         *)
(*   SpecToken    the Token Service (generate_pbi_token.py)                *)
(*   SpecAgent    BaseAgent and the translators built on it (ai/agents)    *)
(*   SpecAll      every component that calls a remote service              *)
(*                                                                         *)
(* Text is a sequence of string tokens, so that concatenation (f-strings), *)
(* prefixes and substrings are computed, not assumed.  JSON values are     *)
(* tagged records.  A Python call that may raise evaluates to a result     *)
(* record: Returned(text) or Raised(exception name).                       *)
(***************************************************************************)
EXTENDS Integers, Sequences, FiniteSets, TLC

VARIABLES
    config,                 \* ai.ai_config.config: the two Power BI identifiers
    tool,                   \* one invocation of execute_dax_query_tool
    agent_service,          \* the AgentService singleton (agent_service.py:251)
    chat_call,              \* the AgentService.chat call in flight
    chat_log,               \* completed AgentService.chat calls
    env,                    \* environment of the process running main.py
    app,                    \* life cycle of the main.py process
    dax_agent,              \* main.py:25, the shared DaxAgent (_client, _credential)
    conversation_history,   \* main.py:75
    powerbi_token_info,     \* main.py:78, the cached token descriptor
    req,                    \* HTTP requests: position in their handler, response
    prev_op,                \* the handler steps that ran last and before it
    generator,              \* a PowerBITokenGenerator (access_token)
    token_call,             \* the last generate_embed_token call and its result
    base_agent,             \* a BaseAgent subclass instance (_client, _credential)
    resources,              \* the credentials and clients start() created
    agent_call              \* the last translator call and its result

vars == <<config, tool, agent_service, chat_call, chat_log, env, app, dax_agent,
          conversation_history, powerbi_token_info, req, prev_op, generator,
          token_call, base_agent, resources, agent_call>>

queryVars == <<config, tool>>
serviceVars == <<agent_service, chat_call, chat_log>>
appVars == <<env, app, dax_agent, conversation_history, powerbi_token_info, req,
             prev_op>>
tokenVars == <<generator, token_call>>
agentVars == <<base_agent, resources, agent_call>>

\* what the actions of one component leave alone
notQuery == <<serviceVars, appVars, tokenVars, agentVars>>
notService == <<queryVars, appVars, tokenVars, agentVars>>
notApp == <<queryVars, serviceVars, tokenVars, agentVars>>
notToken == <<queryVars, serviceVars, appVars, agentVars>>
notAgent == <<queryVars, serviceVars, appVars, tokenVars>>

-----------------------------------------------------------------------------
(* Bounds of the model *)

\* longest user message / context, in tokens
MaxMsgLen == 2
\* HTTP requests issued against the request surface in one run
MaxReq == 3
\* rows in the first table of a query result
MaxRows == 2
\* requests to the Power BI endpoints in one run of the process
MaxPbiReq == 2
\* calls of start() on one agent
MaxStarts == 2

-----------------------------------------------------------------------------
(* Text *)

\* Python's None where a str is optional
None == "<None>"

StartsWith(s, p) == Len(s) >= Len(p) /\ SubSeq(s, 1, Len(p)) = p

Contains(s, sub) ==
    \E i \in 0..(Len(s) - Len(sub)) : SubSeq(s, i + 1, i + Len(sub)) = sub

\* all texts of at most n tokens over the words W
TextsUpTo(W, n) == UNION {[1..k -> W] : k \in 0..n}

\* outcome of a Python call
Returned(text) == [outcome |-> "returned", text |-> text]
Raised(exc) == [outcome |-> "raised", text |-> <<exc>>]

-----------------------------------------------------------------------------
(* JSON values (the result of response.json()) and the Python operations   *)
(* the Query Executor applies to them                                      *)

JNull == [t |-> "null"]
JStr(s) == [t |-> "str", s |-> s]
JNum(n) == [t |-> "num", n |-> n]
JList(xs) == [t |-> "list", xs |-> xs]
JDict(kv) == [t |-> "dict", kv |-> kv]
\* a body that is not JSON at all (response.json() raises on it)
JRaw == [t |-> "raw"]
\* marks a key that a dict does not have (never a value)
Absent == [t |-> "absent"]

\* the dict with the keys ks whose value val[k] is not Absent
DictOf(ks, val) == JDict([k \in {x \in ks : val[x] # Absent} |-> val[k]])

\* the result of evaluating an expression that may raise
Ok(v) == [ok |-> TRUE, v |-> v]
Exc(name) == [ok |-> FALSE, exc |-> name]

\* bool(v), as `if v` / `if not v` evaluate it
Truthy(v) ==
    CASE v.t = "null" -> FALSE
      [] v.t = "str" -> v.s # ""
      [] v.t = "num" -> v.n # 0
      [] v.t = "list" -> v.xs # <<>>
      [] v.t = "dict" -> DOMAIN v.kv # {}

\* v.get(key, default): only a dict has .get
PyGet(v, key, default) ==
    IF v.t = "dict"
    THEN Ok(IF key \in DOMAIN v.kv THEN v.kv[key] ELSE default)
    ELSE Exc("AttributeError")

\* v[0]
PyIndex0(v) ==
    CASE v.t = "list" -> IF v.xs # <<>> THEN Ok(v.xs[1]) ELSE Exc("IndexError")
      [] v.t = "str" -> IF v.s # "" THEN Ok(v) ELSE Exc("IndexError")
      [] v.t = "dict" -> Exc("KeyError")
      [] OTHER -> Exc("TypeError")

\* len(v)
PyLen(v) ==
    CASE v.t = "list" -> Ok(Len(v.xs))
      [] v.t = "str" -> Ok(IF v.s = "" THEN 0 ELSE 1)
      [] v.t = "dict" -> Ok(Cardinality(DOMAIN v.kv))
      [] OTHER -> Exc("TypeError")

RECURSIVE Dumps(_)
RECURSIVE DumpsItems(_)
RECURSIVE DumpsPairs(_, _)

\* json.dumps(v, indent=2), as tokens
Dumps(v) ==
    CASE v.t = "null" -> <<"null">>
      [] v.t = "str" -> <<"\"", v.s, "\"">>
      [] v.t = "num" -> <<ToString(v.n)>>
      [] v.t = "list" -> <<"[">> \o DumpsItems(v.xs) \o <<"]">>
      [] v.t = "dict" -> <<"{">> \o DumpsPairs(v.kv, DOMAIN v.kv) \o <<"}">>

DumpsItems(xs) ==
    IF xs = <<>> THEN <<>>
    ELSE Dumps(Head(xs)) \o (IF Len(xs) > 1 THEN <<",">> ELSE <<>>)
         \o DumpsItems(Tail(xs))

DumpsPairs(kv, ks) ==
    IF ks = {} THEN <<>>
    ELSE LET k == CHOOSE x \in ks : TRUE
         IN <<"\"", k, "\"", ":">> \o Dumps(kv[k])
            \o (IF ks # {k} THEN <<",">> ELSE <<>>)
            \o DumpsPairs(kv, ks \ {k})

\* str(v) as an f-string formats it
PyFormat(v) ==
    CASE v.t = "str" -> <<v.s>>
      [] v.t = "null" -> <<"None">>
      [] v.t = "num" -> <<ToString(v.n)>>
      [] OTHER -> <<"repr">> \o Dumps(v)

-----------------------------------------------------------------------------
(* Query Executor: execute_dax_query_tool(dax_query)                       *)

ConfigValues == {None, "", "id-1"}
Queries == {"EVALUATE Orders", "EVALUATE Category"}
Statuses == {200, 201, 204, 400, 401, 500}

\* what the executeQueries endpoint may answer with
ErrorVals ==
    {Absent, JNull, JDict(<<>>), JStr("boom"),
     JDict([k \in {"message"} |-> JStr("bad query")]),
     JDict([k \in {"code"} |-> JStr("E1")])}
RowVals ==
    {JDict([k \in {"[Total]"} |-> JNum(1)]), JDict([k \in {"[Total]"} |-> JNull])}
RowsVals ==
    {JList(xs) : xs \in TextsUpTo(RowVals, MaxRows)}
        \cup {Absent, JNull, JStr("x"), JNum(5)}
TableVals ==
    {DictOf({"rows"}, [k \in {"rows"} |-> r]) : r \in RowsVals}
        \cup {JNull, JStr("x")}
TablesVals ==
    {JList(<<t>>) : t \in TableVals} \cup {Absent, JNull, JList(<<>>), JStr("x")}
QueryResultVals ==
    {DictOf({"error", "tables"}, [k \in {"error", "tables"} |->
                IF k = "error" THEN e ELSE t]) : e \in ErrorVals, t \in TablesVals}
        \cup {JNull, JStr("x")}
ResultsVals ==
    {JList(<<r>>) : r \in QueryResultVals}
        \cup {Absent, JNull, JList(<<>>), JStr("x")}
Bodies ==
    {DictOf({"error", "results"}, [k \in {"error", "results"} |->
                IF k = "error" THEN e ELSE r]) : e \in ErrorVals, r \in ResultsVals}
        \cup {JNull, JList(<<>>), JRaw}

\* lines 24, 62, 74: f"Error: {error_msg}"
ErrorPrefix == <<"Error:", " ">>

ConfigErrorMsg ==
    <<"POWERBI_WORKSPACE_ID and POWERBI_DATASET_ID must be set in environment variables">>

\* variant of ConfigMissing: `and` written for `or`
ConfigMissingBoth(cfg) ==
    cfg.powerbi_workspace_id \in {None, ""} /\ cfg.powerbi_dataset_id \in {None, ""}

\* the precondition of line 21: `not workspace_id or not dataset_id`
ConfigMissing(cfg) ==
    cfg.powerbi_workspace_id \in {None, ""} \/ cfg.powerbi_dataset_id \in {None, ""}

\* variant of StatusIsError: every 2xx status counts as a success
StatusIsErrorNon2xx(status) == status \notin 200..299

\* line 51: the status that makes the body an error text
StatusIsError(status) == status # 200

\* await response.text()
ResponseText(body) == IF body = JRaw THEN <<"<html>">> ELSE Dumps(body)

\* await response.json()
ResponseJson(body) == IF body = JRaw THEN Exc("ContentTypeError") ELSE Ok(body)

\* lines 60-62 and 72-74: error["message"] with its default, as "Error: ..."
ErrorMessage(err) ==
    LET m == PyGet(err, "message", JStr("Unknown error"))
    IN IF m.ok THEN Returned(ErrorPrefix \o PyFormat(m.v)) ELSE Raised(m.exc)

\* variant of UnwrapRows: tables[0]["rows"] and rows[0] read without a guard
UnwrapRowsStrict(tables) ==
    LET t0 == PyIndex0(tables)
        rows == IF t0.v.t = "dict" /\ "rows" \in DOMAIN t0.v.kv
                THEN Ok(t0.v.kv["rows"]) ELSE Exc("KeyError")
        first == PyIndex0(rows.v)
    IN IF ~t0.ok THEN Raised(t0.exc)
       ELSE IF ~rows.ok THEN Raised(rows.exc)
       ELSE IF ~first.ok THEN Raised(first.exc)
       ELSE Returned(Dumps(rows.v))

\* lines 81-89: rows of the first table
UnwrapRows(tables) ==
    LET t0 == PyIndex0(tables)
        rows == PyGet(t0.v, "rows", JList(<<>>))
        n == PyLen(rows.v)
    IN IF ~t0.ok THEN Raised(t0.exc)
       ELSE IF ~rows.ok THEN Raised(rows.exc)
       ELSE IF ~Truthy(rows.v) THEN Returned(<<"No rows returned">>)
       ELSE IF ~n.ok THEN Raised(n.exc)
       ELSE Returned(Dumps(rows.v))

\* lines 70-79: the first query result
UnwrapQueryResult(results) ==
    LET q0 == PyIndex0(results)
        e == PyGet(q0.v, "error", JNull)
        tables == PyGet(q0.v, "tables", JList(<<>>))
    IN IF ~q0.ok THEN Raised(q0.exc)
       ELSE IF ~e.ok THEN Raised(e.exc)
       ELSE IF Truthy(e.v) THEN ErrorMessage(e.v)
       ELSE IF ~Truthy(tables.v) THEN Returned(<<"No tables returned">>)
       ELSE UnwrapRows(tables.v)

\* lines 56-67: the parsed body of a 200 response
UnwrapResult(result) ==
    LET e == PyGet(result, "error", JNull)
        results == PyGet(result, "results", JList(<<>>))
    IN IF ~e.ok THEN Raised(e.exc)
       ELSE IF Truthy(e.v) THEN ErrorMessage(e.v)
       ELSE IF ~Truthy(results.v) THEN Returned(<<"No results returned">>)
       ELSE UnwrapQueryResult(results.v)

\* line 54: f"Error executing DAX query: {error_text}"
HttpErrorPrefix == <<"Error executing DAX query:", " ">>

\* lines 51-89: what the call makes of the response
HandleResponse(status, body) ==
    IF StatusIsError(status)
    THEN Returned(HttpErrorPrefix \o ResponseText(body))
    ELSE LET result == ResponseJson(body)
         IN IF result.ok THEN UnwrapResult(result.v) ELSE Raised(result.exc)

ToolIdle ==
    [pc |-> "idle", dax_query |-> "", credCalls |-> 0, httpCalls |-> 0,
     status |-> 0, body |-> JNull, outcome |-> "none", text |-> <<>>]

\* lines 14-24: the call starts; a missing identifier ends it at once
ToolCall ==
    /\ tool.pc = "idle"
    /\ \E dax_query \in Queries :
         tool' = IF ConfigMissing(config)
                 THEN [ToolIdle EXCEPT !.pc = "done", !.dax_query = dax_query,
                          !.outcome = "returned",
                          !.text = ErrorPrefix \o ConfigErrorMsg]
                 ELSE [ToolIdle EXCEPT !.pc = "token", !.dax_query = dax_query]
    /\ UNCHANGED <<config, notQuery>>

\* lines 27-29: the credential is asked for a token, which may fail
ToolGetToken ==
    /\ tool.pc = "token"
    /\ \E ok \in BOOLEAN :
         tool' = IF ok
                 THEN [tool EXCEPT !.pc = "post", !.credCalls = @ + 1]
                 ELSE [tool EXCEPT !.pc = "done", !.credCalls = @ + 1,
                          !.outcome = "raised",
                          !.text = <<"ClientAuthenticationError">>]
    /\ UNCHANGED <<config, notQuery>>

\* lines 49-89: the POST is answered and the answer is handled
ToolPost ==
    /\ tool.pc = "post"
    /\ \E status \in Statuses, body \in Bodies :
         LET r == HandleResponse(status, body)
         IN tool' = [tool EXCEPT !.pc = "done", !.httpCalls = @ + 1,
                        !.status = status, !.body = body,
                        !.outcome = r.outcome, !.text = r.text]
    /\ UNCHANGED <<config, notQuery>>

\* line 50: the POST fails to connect
ToolPostFails ==
    /\ tool.pc = "post"
    /\ tool' = [tool EXCEPT !.pc = "done", !.httpCalls = @ + 1,
                   !.outcome = "raised", !.text = <<"ClientConnectorError">>]
    /\ UNCHANGED <<config, notQuery>>

\* the agent invokes the tool again
ToolReturn ==
    /\ tool.pc = "done"
    /\ tool' = ToolIdle
    /\ UNCHANGED <<config, notQuery>>

ConfigInit ==
    config \in [powerbi_workspace_id : ConfigValues, powerbi_dataset_id : ConfigValues]

-----------------------------------------------------------------------------
(* Chat Orchestrator: AgentService (agent_service.py)                      *)

\* calls of AgentService.chat recorded in one run
MaxCalls == 2

Words == {"Hello"}
ContextWords == {"Q4"}
Contents == TextsUpTo(Words, MaxMsgLen)
\* ChatRequest.messages: the list may be empty; only its last entry is read
MessageLists ==
    {<<>>} \cup {<<[role |-> "user", content |-> c]>> : c \in Contents}
        \cup {<<[role |-> "assistant", content |-> <<"Hi">>],
               [role |-> "user", content |-> c]>> : c \in Contents}
\* Optional[str]: None, the empty string, or a text
Contexts == {<<None>>, <<>>} \cup {<<w>> : w \in ContextWords}
AgentTexts == {<<"Sales", "fell">>}

\* line 163: messages[-1]["content"] if messages else ""
LastContent(messages) ==
    IF messages # <<>> THEN messages[Len(messages)].content ELSE <<>>

\* `if context`: neither None nor empty
ContextGiven(context) == context # <<None>> /\ context # <<>>

\* lines 174-176
MergeContextBehind(context, user_message) ==
    IF ContextGiven(context)
    THEN user_message \o <<"\n\nPower BI Context: ">> \o context
    ELSE user_message
MergeContext(context, user_message) ==
    IF ContextGiven(context)
    THEN <<"Power BI Context: ">> \o context \o <<"\n\nUser Question: ">>
            \o user_message
    ELSE user_message

MockHead == <<"I understand you're asking about: '">>
SetupInstructions ==
    <<"'. ",
      "I'm an AI assistant ready to help you analyze your Power BI data using Microsoft Agent Framework. ",
      "\n\n(Note: This is a mock response. To enable real AI responses using Microsoft Agent Framework:\n",
      "1. Install: pip install agent-framework agent-framework-azure-ai azure-identity\n",
      "2. For Azure AI Foundry (Recommended): Set AZURE_AI_PROJECT_ENDPOINT and AZURE_AI_MODEL_DEPLOYMENT_NAME in .env\n",
      "3. For Azure OpenAI: Set AZURE_OPENAI_ENDPOINT and AZURE_OPENAI_DEPLOYMENT_NAME in .env\n",
      "4. For OpenAI: Set OPENAI_API_KEY in .env\n",
      "5. Run 'az login' to authenticate with Azure CLI\n",
      "6. Optionally set OPENAI_MODEL (default: gpt-4o))">>

\* lines 189-212: _mock_response(user_message)
MockResponse(user_message) == MockHead \o user_message \o SetupInstructions

\* lines 52-146: _initialize_agent under the outcomes of what it calls:
\* importOk (the framework imports), cred (which credential constructs),
\* clientOk (the client and its agent construct).  cfg holds which of the
\* three configurations are set.
InitializeAgent(cfg, importOk, cred, clientOk) ==
    IF cfg.project_endpoint \/ cfg.openai_endpoint
    THEN IF ~importOk THEN [outcome |-> "returned", agent |-> "None"]
         ELSE IF cred = "none" THEN [outcome |-> "returned", agent |-> "None"]
         ELSE IF clientOk THEN [outcome |-> "returned", agent |-> "agent"]
         ELSE [outcome |-> "returned", agent |-> "None"]
    ELSE IF cfg.api_key
    THEN IF importOk /\ clientOk
         THEN [outcome |-> "returned", agent |-> "agent"]
         ELSE [outcome |-> "returned", agent |-> "None"]
    ELSE [outcome |-> "returned", agent |-> "None"]

\* variant of ChatNoAgent: the context is merged before the agent is looked at
ChatNoAgentMerged(messages, context) ==
    Returned(MockResponse(MergeContext(context, LastContent(messages))))

\* lines 166-168: no agent, the mock response for the latest message
ChatNoAgent(messages, context) == Returned(MockResponse(LastContent(messages)))

\* lines 179-182: the agent's run returned; len(result.text) raises on None
ChatOnResult(text) ==
    IF text = <<None>> THEN Raised("TypeError") ELSE Returned(text)

\* variant of ChatOnException: the exception is logged and raised again
ChatOnExceptionRaises(user_message) == Raised("Exception")

\* lines 184-187: any exception of the try block ends in the mock response
ChatOnException(user_message) == Returned(MockResponse(user_message))

NoCall == [pc |-> "idle", messages |-> <<>>, context |-> <<None>>,
           user_message |-> <<>>, agentCalls |-> 0]

\* what one chat() call did: sent is the text the agent was run with and
\* reply the text its run returned (<<None>> when there was none)
LogEntry(call, available, failed, reply, r) ==
    [messages |-> call.messages, context |-> call.context,
     agent_available |-> available, agent_failed |-> failed,
     agentCalls |-> call.agentCalls, sent |-> call.user_message,
     reply |-> reply, outcome |-> r.outcome, text |-> r.text]

\* lines 31-50: AgentService() runs _initialize_agent once
ServiceConstruct ==
    /\ agent_service.state = "constructing"
    /\ \E importOk \in BOOLEAN, cred \in {"cli", "default", "none"},
          clientOk \in BOOLEAN :
         LET r == InitializeAgent(agent_service, importOk, cred, clientOk)
         IN agent_service' =
                [agent_service EXCEPT
                    !.state = IF r.outcome = "returned" THEN "ready" ELSE "failed",
                    !.agent = r.agent]
    /\ UNCHANGED <<chat_call, chat_log, notService>>

\* lines 148-168: chat() with no agent returns the mock response at once
ChatMock ==
    /\ agent_service.state = "ready" /\ agent_service.agent = "None"
    /\ chat_call.pc = "idle" /\ Len(chat_log) < MaxCalls
    /\ \E messages \in MessageLists, context \in Contexts :
         LET call == [NoCall EXCEPT !.messages = messages, !.context = context,
                                    !.user_message = LastContent(messages)]
         IN chat_log' = Append(chat_log,
                LogEntry(call, FALSE, FALSE, <<None>>,
                         ChatNoAgent(messages, context)))
    /\ UNCHANGED <<agent_service, chat_call, notService>>

\* lines 148-179: chat() with an agent merges the context and awaits the run
ChatRun ==
    /\ agent_service.state = "ready" /\ agent_service.agent # "None"
    /\ chat_call.pc = "idle" /\ Len(chat_log) < MaxCalls
    /\ \E messages \in MessageLists, context \in Contexts :
         chat_call' = [pc |-> "awaiting", messages |-> messages,
                       context |-> context,
                       user_message |-> MergeContext(context, LastContent(messages)),
                       agentCalls |-> 1]
    /\ UNCHANGED <<agent_service, chat_log, notService>>

\* lines 179-187: the run returns a result
ChatRunReturns ==
    /\ chat_call.pc = "awaiting"
    /\ \E text \in AgentTexts \cup {<<None>>} :
         LET r == ChatOnResult(text)
             failed == r.outcome = "raised"
         IN chat_log' = Append(chat_log, LogEntry(chat_call, TRUE, failed, text,
                IF failed THEN ChatOnException(chat_call.user_message) ELSE r))
    /\ chat_call' = NoCall
    /\ UNCHANGED <<agent_service, notService>>

\* lines 179, 184-187: the run raises
ChatRunRaises ==
    /\ chat_call.pc = "awaiting"
    /\ chat_log' = Append(chat_log, LogEntry(chat_call, TRUE, TRUE, <<None>>,
            ChatOnException(chat_call.user_message)))
    /\ chat_call' = NoCall
    /\ UNCHANGED <<agent_service, notService>>

ServiceInit ==
    /\ agent_service \in [state : {"constructing"}, agent : {"None"},
                          project_endpoint : BOOLEAN, openai_endpoint : BOOLEAN,
                          api_key : BOOLEAN]
    /\ chat_call = NoCall
    /\ chat_log = <<>>

-----------------------------------------------------------------------------
(* Token Service: generate_pbi_token.py, class PowerBITokenGenerator       *)

\* a Python dict as a function from its keys; d.get(k, default)
EmptyDict == <<>>
DictGet(d, k, default) == IF k \in DOMAIN d THEN d[k] ELSE default
\* truth value of a string or None, and of a text
TruthyStr(v) == v \notin {None, ""}
TruthyText(t) == t \notin {<<None>>, <<>>}

ReportIds == {"r1"}
WorkspaceIds == {None, "w1"}

\* how credential.get_token answers (generate_pbi_token.py:43-53)
CredOutcomes == {"token", "empty", "auth_error", "error"}
\* the answers of the three Power BI REST calls: the call raises (a
\* requests exception), or answers with a status and a JSON body
NoAnswer == [raises |-> TRUE, status |-> 0, json |-> EmptyDict]
Answer(status, json) == [raises |-> FALSE, status |-> status, json |-> json]
TokenJsons == {EmptyDict, [token |-> "tok", expiration |-> "exp"]}
PostAnswers ==
    {NoAnswer, Answer(401, EmptyDict)} \cup {Answer(200, j) : j \in TokenJsons}
ReportJsons ==
    {EmptyDict,
     [embedUrl |-> <<"https://app.powerbi.com/reportEmbed?reportId=r1&config=x">>,
      name |-> "Sales"]}
ReportAnswers ==
    {NoAnswer, Answer(404, EmptyDict)} \cup {Answer(200, j) : j \in ReportJsons}
Page1 == [name |-> "ReportSection1", displayName |-> "Overview"]
PagesJsons == {EmptyDict, [value |-> <<Page1>>]}
PagesAnswers ==
    {NoAnswer, Answer(403, EmptyDict)} \cup {Answer(200, j) : j \in PagesJsons}
Worlds ==
    [cred : CredOutcomes, post : PostAnswers, report : ReportAnswers,
     pages : PagesAnswers]

\* the remote calls of the Token Service, as they appear in a call trace
GetTokenCall == "credential.get_token"
PostGenerateToken == "POST GenerateToken"
GetReport == "GET report"
GetPages == "GET pages"

\* generate_pbi_token.py:29-60: get_azure_access_token returns the token or
\* raises; each except clause raises an Exception of its own
GetAzureAccessTokenSwallow(cred) ==
    IF cred = "token" THEN Returned("aad-token") ELSE Returned(None)
GetAzureAccessToken(cred) ==
    CASE cred = "token" -> Returned("aad-token")
      [] cred = "auth_error" ->
           Raised("Authentication failed. Make sure you're logged in with 'az login': ClientAuthenticationError")
      [] cred = "empty" ->
           Raised("Failed to get access token: Failed to get access token")
      [] OTHER -> Raised("Failed to get access token: error")

\* generate_pbi_token.py:112-139: get_report_pages, reached with the access
\* token already set: one GET; a non-200 answer gives {"value": []}
GetReportPages(pages) ==
    IF pages.raises THEN Raised("requests.RequestException")
    ELSE IF pages.status = 200 THEN Returned(pages.json)
    ELSE Returned([value |-> <<>>])

VisualDiscoveryNote ==
    "Visual discovery requires client-side JavaScript API after report embedding"

\* generate_pbi_token.py:218-229: the descriptor built when the report
\* details were fetched
FullDescriptor(token_info, report_details, pages, report_id, workspace_id) ==
    [embedToken |-> DictGet(token_info, "token", None),
     tokenExpiry |-> DictGet(token_info, "expiration", None),
     embedUrl |-> DictGet(report_details, "embedUrl", <<None>>),
     reportId |-> report_id,
     workspaceId |-> workspace_id,
     reportName |-> DictGet(report_details, "name", "Unknown"),
     pages |-> IF pages # EmptyDict THEN DictGet(pages, "value", <<>>) ELSE <<>>,
     visuals |-> <<>>,
     visualDiscoveryNote |-> VisualDiscoveryNote]

\* generate_pbi_token.py:233: the embed URL built from the identifiers
SynthesizedEmbedUrl(report_id, workspace_id) ==
    <<"https://app.powerbi.com/reportEmbed?reportId=", report_id>>
      \o (IF TruthyStr(workspace_id) THEN <<"&groupId=", workspace_id>> ELSE <<>>)

\* generate_pbi_token.py:230-240: the descriptor built when the report
\* details answered with another status than 200
DegradedDescriptor(token_info, report_id, workspace_id) ==
    [embedToken |-> DictGet(token_info, "token", None),
     tokenExpiry |-> DictGet(token_info, "expiration", None),
     embedUrl |-> SynthesizedEmbedUrl(report_id, workspace_id),
     reportId |-> report_id,
     workspaceId |-> workspace_id,
     reportName |-> "Unknown",
     visuals |-> <<>>]

\* the result of a generate_embed_token call: what it returned or raised,
\* the remote calls it made in order, and self.access_token afterwards
TokenResult(outcome, calls, access_token) ==
    [outcome |-> outcome.outcome, value |-> outcome.value, exc |-> outcome.exc,
     calls |-> calls, access_token |-> access_token]
ReturnedDict(d) == [outcome |-> "returned", value |-> d, exc |-> <<>>]
RaisedExc(e) == [outcome |-> "raised", value |-> EmptyDict, exc |-> e]

\* variant of AfterPost: the issuance POST is sent a second time and the
\* call gives up
AfterPostRetry(w, report_id, workspace_id, calls, access_token) ==
    TokenResult(ReturnedDict(EmptyDict), calls \o <<PostGenerateToken>>,
                access_token)

\* generate_pbi_token.py:194-243: generate_embed_token after the token
\* issuance POST was sent
AfterPost(w, report_id, workspace_id, calls, access_token) ==
    IF w.post.raises
    THEN TokenResult(RaisedExc(<<"requests.RequestException">>), calls,
                     access_token)
    ELSE IF w.post.status # 200
    THEN TokenResult(ReturnedDict(EmptyDict), calls, access_token)
    ELSE LET c3 == calls \o <<GetReport>> IN
         IF w.report.raises
         THEN TokenResult(RaisedExc(<<"requests.RequestException">>), c3,
                          access_token)
         ELSE IF w.report.status = 200
         THEN LET c4 == c3 \o <<GetPages>>
                  pages == GetReportPages(w.pages)
              IN IF pages.outcome = "raised"
                 THEN TokenResult(RaisedExc(pages.text), c4, access_token)
                 ELSE TokenResult(
                        ReturnedDict(FullDescriptor(w.post.json, w.report.json,
                                                    pages.text, report_id,
                                                    workspace_id)),
                        c4, access_token)
         ELSE TokenResult(
                ReturnedDict(DegradedDescriptor(w.post.json, report_id,
                                                workspace_id)),
                c3, access_token)

\* generate_pbi_token.py:160-243: generate_embed_token(report_id,
\* workspace_id) on a generator whose self.access_token is access_token,
\* against remote services that answer as w says
GenerateEmbedToken(access_token, report_id, workspace_id, w) ==
    LET fetch == ~TruthyStr(access_token)
        tok == IF fetch THEN GetAzureAccessToken(w.cred)
               ELSE Returned(access_token)
        c1 == IF fetch THEN <<GetTokenCall>> ELSE <<>>
    IN IF tok.outcome = "raised"
       THEN TokenResult(RaisedExc(tok.text), c1, access_token)
       ELSE AfterPost(w, report_id, workspace_id, c1 \o <<PostGenerateToken>>,
                      tok.text)

NoTokenCall ==
    [pc |-> "none", report_id |-> None, workspace_id |-> None,
     world |-> [cred |-> "token", post |-> NoAnswer, report |-> NoAnswer,
                pages |-> NoAnswer],
     cached |-> None,
     result |-> TokenResult(ReturnedDict(EmptyDict), <<>>, None)]

\* generate_pbi_token.py:24-27: PowerBITokenGenerator()
TokenConstruct ==
    /\ generator.state # "off"
    /\ generator' = [state |-> "ready", access_token |-> None]
    /\ UNCHANGED <<token_call, notToken>>

\* one call of generate_embed_token on the generator
TokenGenerate ==
    /\ generator.state = "ready"
    /\ \E report_id \in ReportIds, workspace_id \in WorkspaceIds, w \in Worlds :
         LET r == GenerateEmbedToken(generator.access_token, report_id,
                                     workspace_id, w)
         IN /\ token_call' = [pc |-> "done", report_id |-> report_id,
                              workspace_id |-> workspace_id, world |-> w,
                              cached |-> generator.access_token, result |-> r]
            /\ generator' = [generator EXCEPT !.access_token = r.access_token]
    /\ UNCHANGED notToken

TokenInit ==
    /\ generator = [state |-> "new", access_token |-> None]
    /\ token_call = NoTokenCall

-----------------------------------------------------------------------------
(* Request Surface: main.py, with the DaxAgent of backend/dax_agent.py     *)

EndpointValues == {None, "https://project"}
\* the environment variables main.py reads; None stands for an unset one
EnvReportIds == {None, "r1"}
EnvWorkspaceIds == {None, "w1"}
EnvFallbacks ==
    {[POWERBI_EMBED_URL |-> None, POWERBI_ACCESS_TOKEN |-> None],
     [POWERBI_EMBED_URL |-> "https://embed", POWERBI_ACCESS_TOKEN |-> None],
     [POWERBI_EMBED_URL |-> "https://embed", POWERBI_ACCESS_TOKEN |-> "env-token"]}
Env(endpoint, report_id, workspace_id, fallback) ==
    [AZURE_AI_PROJECT_ENDPOINT |-> endpoint, POWERBI_REPORT_ID |-> report_id,
     POWERBI_WORKSPACE_ID |-> workspace_id,
     POWERBI_EMBED_URL |-> fallback.POWERBI_EMBED_URL,
     POWERBI_ACCESS_TOKEN |-> fallback.POWERBI_ACCESS_TOKEN]
\* os.getenv(name, default)
Getenv(e, name, default) == IF e[name] = None THEN default ELSE e[name]
DaxTexts == {<<"EVALUATE", "Orders">>}
\* ChatRequest bodies sent to POST /api/chat
AppMessageLists ==
    {<<>>, <<[role |-> "user", content |-> <<"Hello">>]>>,
     <<[role |-> "assistant", content |-> <<"Hi">>],
       [role |-> "user", content |-> <<"sales", "by", "region">>]>>}
AppContexts == {<<None>>, <<"Q4">>}

NoResponse == [status |-> 0, role |-> None, message |-> <<>>, history |-> <<>>]

\* a request as it arrives: nothing run, nothing answered
NewRequest(kind, messages, context) ==
    [kind |-> kind, pc |-> "new", messages |-> messages, context |-> context,
     appended |-> <<>>, agent_runs |-> 0, response |-> NoResponse]

\* main.py:140: request.messages[-1] if request.messages else None
LastMessage(messages) ==
    IF messages # <<>> THEN <<messages[Len(messages)]>> ELSE <<>>

\* main.py:145-148 and 155-158: the entry stored for a message
HistoryEntry(role, content) == [role |-> role, content |-> content]

\* main.py:160: ChatResponse(message=response_content, role="assistant")
ChatResponse(text) ==
    [status |-> 200, role |-> "assistant", message |-> text, history |-> <<>>]

\* main.py:142: HTTPException(status_code=400, detail="No message provided"),
\* raised inside the try block of the handler
NoMessageError == [status |-> 400, text |-> <<"400: No message provided">>]

\* main.py:162-163: `except Exception as e` turns whatever the try block
\* raised, the HTTPException of line 142 included, into a 500
ChatExcept(e) ==
    [status |-> 500, role |-> None,
     message |-> <<"Error processing chat: ">> \o e.text, history |-> <<>>]

\* dax_agent.py:132-133: generate_dax_query refuses to run without a client
NotStarted(agent) == agent._client = "None"
NotStartedError ==
    [status |-> 500, text |-> <<"DaxAgent not started. Call start() first.">>]

\* dax_agent.py:86-96: DaxAgent() raises when the endpoint is unset
EndpointMissing(e) == e.AZURE_AI_PROJECT_ENDPOINT \in {None, ""}

\* main.py:78-86: powerbi_token_info as the module is imported.  Every
\* value is held with the number of the generation that wrote it: 0 for the
\* import, 1 for the startup, i + 1 for the refresh request i.
Written(v, g) == [val |-> v, gen |-> g]
InitialTokenInfo ==
    [embedUrl |-> Written(<<>>, 0), accessToken |-> Written("", 0),
     reportId |-> Written("", 0), workspaceId |-> Written("", 0),
     tokenExpiry |-> Written("", 0), reportName |-> Written("", 0),
     visuals |-> Written(<<>>, 0)]
\* powerbi_token_info.get(k, default)
InfoGet(info, k, default) == IF k \in DOMAIN info THEN info[k].val ELSE default
\* the descriptor a generation returned, as generation g writes it
Generation(d, g) == [k \in DOMAIN d |-> Written(d[k], g)]

\* variant of DictUpdate: only the token is replaced
DictUpdateTokenOnly(info, d) ==
    [k \in DOMAIN info \cup (DOMAIN d \cap {"embedToken"}) |->
        IF k = "embedToken" /\ k \in DOMAIN d THEN d[k] ELSE info[k]]

\* main.py:113: powerbi_token_info.update(token_info)
DictUpdate(info, d) ==
    [k \in DOMAIN info \cup DOMAIN d |-> IF k \in DOMAIN d THEN d[k] ELSE info[k]]

\* the remote services as main.py meets them: one world for each way a
\* generation can end
World(cred, post, report, pages) ==
    [cred |-> cred, post |-> post, report |-> report, pages |-> pages]
Issued == Answer(200, [token |-> "tok", expiration |-> "exp"])
Details ==
    Answer(200,
           [embedUrl |-> <<"https://app.powerbi.com/reportEmbed?reportId=r1&config=x">>,
            name |-> "Sales"])
Listing == Answer(200, [value |-> <<Page1>>])
AppWorlds ==
    {World("auth_error", NoAnswer, NoAnswer, NoAnswer),
     World("token", NoAnswer, NoAnswer, NoAnswer),
     World("token", Answer(401, EmptyDict), NoAnswer, NoAnswer),
     World("token", Answer(200, EmptyDict), Details, Listing),
     World("token", Issued, NoAnswer, NoAnswer),
     World("token", Issued, Answer(404, EmptyDict), NoAnswer),
     World("token", Issued, Answer(200, EmptyDict), Listing),
     World("token", Issued, Details, Answer(403, EmptyDict)),
     World("token", Issued, Details, Listing)}

\* what generate_powerbi_token logs about its outcome (main.py:97, 114,
\* 117, 119)
LogNotSet == "POWERBI_REPORT_ID not set"
LogGenerated == "Successfully generated Power BI token"
LogNoToken == "Failed to generate Power BI embed token - no token returned"
LogError == "Error generating Power BI token"

\* main.py:88-121: generate_powerbi_token() as generation g, with a new
\* PowerBITokenGenerator; it returns nothing and raises nothing: the new
\* powerbi_token_info, the line it logs and the remote calls it made
\* main.py:112: token_info and token_info.get("embedToken")
TokenReturnedAny(token_info) == TRUE
TokenReturned(token_info) ==
    /\ DOMAIN token_info # {}
    /\ TruthyStr(DictGet(token_info, "embedToken", None))

\* what one run of generate_powerbi_token leaves in the cache (info), what it
\* logged last, the remote calls it made, and what generate_embed_token
\* did (outcome: "not_set" without a report id, "raised" or "returned" after
\* the call of generate_embed_token, with the dict it returned)
NoGeneration ==
    [ran |-> FALSE, log |-> None, calls |-> <<>>, outcome |-> "none",
     returned |-> EmptyDict]
GeneratePowerbiToken(info, e, w, g) ==
    LET report_id == e.POWERBI_REPORT_ID
        workspace_id == e.POWERBI_WORKSPACE_ID
    IN IF ~TruthyStr(report_id)
       THEN [info |-> info, ran |-> TRUE, log |-> LogNotSet, calls |-> <<>>,
             outcome |-> "not_set", returned |-> EmptyDict]
       ELSE LET r == GenerateEmbedToken(None, report_id, workspace_id, w)
            IN IF r.outcome = "raised"
               THEN [info |-> info, ran |-> TRUE, log |-> LogError,
                     calls |-> r.calls, outcome |-> "raised",
                     returned |-> EmptyDict]
               ELSE IF TokenReturned(r.value)
               THEN [info |-> DictUpdate(info, Generation(r.value, g)),
                     ran |-> TRUE, log |-> LogGenerated, calls |-> r.calls,
                     outcome |-> "returned", returned |-> r.value]
               ELSE [info |-> info, ran |-> TRUE, log |-> LogNoToken,
                     calls |-> r.calls, outcome |-> "returned",
                     returned |-> r.value]

Step(kind, i) == [kind |-> kind, i |-> i]
NoStep == Step("none", 0)
NoOps == [last |-> NoStep, before |-> NoStep, startup |-> NoGeneration,
          startup_before |-> InitialTokenInfo]
Ran(step) == prev_op' = [prev_op EXCEPT !.last = step, !.before = prev_op.last]

\* main.py:25: importing main constructs the shared DaxAgent
AppImport ==
    /\ app = "importing"
    /\ app' = IF EndpointMissing(env) THEN "crashed" ELSE "startup"
    /\ UNCHANGED <<env, powerbi_token_info, dax_agent, conversation_history, req, prev_op, notApp>>

\* main.py:31-32, dax_agent.py:98-107: startup runs dax_agent.start(), where
\* the credential is constructed first, then the client, which may fail;
\* then generate_powerbi_token(), as generation 1
LifespanStartup ==
    /\ app = "startup"
    /\ \E clientOk \in BOOLEAN, w \in AppWorlds :
         LET g == GeneratePowerbiToken(powerbi_token_info, env, w, 1)
         IN /\ dax_agent' = [_credential |-> "open",
                             _client |-> IF clientOk THEN "open" ELSE "None"]
            /\ app' = IF clientOk THEN "serving" ELSE "startup_failed"
            /\ powerbi_token_info' =
                 IF clientOk THEN g.info ELSE powerbi_token_info
            /\ prev_op' =
                 IF clientOk
                 THEN [prev_op EXCEPT !.startup = [ran |-> g.ran, log |-> g.log,
                                          calls |-> g.calls,
                                          outcome |-> g.outcome,
                                          returned |-> g.returned],
                                      !.startup_before = powerbi_token_info]
                 ELSE prev_op
    /\ UNCHANGED <<env, conversation_history, req, notApp>>

\* main.py:35, dax_agent.py:109-115: shutdown runs dax_agent.stop()
LifespanShutdown ==
    /\ app = "serving"
    /\ \A i \in DOMAIN req : req[i].pc = "done"
    /\ dax_agent' =
         [_credential |-> IF dax_agent._credential # "None" THEN "closed"
                          ELSE dax_agent._credential,
          _client |-> IF dax_agent._client # "None" THEN "closed"
                      ELSE dax_agent._client]
    /\ app' = "stopped"
    /\ UNCHANGED <<env, powerbi_token_info, conversation_history, req, prev_op, notApp>>

\* how many requests one run of a process takes: MaxReq of them when only
\* the chat endpoints are exercised, MaxPbiReq when the process has a report
\* to generate tokens for
RequestCap == IF env.POWERBI_REPORT_ID = None THEN MaxReq ELSE MaxPbiReq

\* a POST /api/chat sent to a process that never came to serve
ChatRefused ==
    /\ app \in {"crashed", "startup_failed"}
    /\ Len(req) < RequestCap
    /\ \E messages \in AppMessageLists, context \in AppContexts :
         req' = Append(req, [NewRequest("chat", messages, context)
                                EXCEPT !.pc = "done"])
    /\ UNCHANGED <<env, powerbi_token_info, app, dax_agent, conversation_history, prev_op, notApp>>

\* main.py:145-148, 155-158: conversation_history.append(entry)
AppendedTrimmed(history, entry) == <<entry>>
Appended(history, entry) == Append(history, entry)

\* main.py:132-153: POST /api/chat up to the await of the agent's answer
ChatBegin ==
    /\ app = "serving"
    /\ Len(req) < RequestCap
    /\ \E messages \in AppMessageLists, context \in AppContexts :
         LET r == NewRequest("chat", messages, context)
             user_message == LastMessage(messages)
             entry == HistoryEntry(user_message[1].role, user_message[1].content)
         IN IF user_message = <<>>
            THEN /\ req' = Append(req, [r EXCEPT !.pc = "done",
                                           !.response = ChatExcept(NoMessageError)])
                 /\ UNCHANGED conversation_history
            ELSE /\ conversation_history' = Appended(conversation_history, entry)
                 /\ req' = Append(req,
                        IF NotStarted(dax_agent)
                        THEN [r EXCEPT !.pc = "done", !.appended = <<entry>>,
                                       !.response = ChatExcept(NotStartedError)]
                        ELSE [r EXCEPT !.pc = "awaiting", !.appended = <<entry>>,
                                       !.agent_runs = @ + 1])
    /\ Ran(Step("chat_begin", Len(req) + 1))
    /\ UNCHANGED <<env, powerbi_token_info, app, dax_agent, notApp>>

\* main.py:151-160: the agent answered; the reply is stored and returned
ChatAgentReturns ==
    /\ \E i \in DOMAIN req, text \in DaxTexts :
         /\ req[i].pc = "awaiting"
         /\ LET entry == HistoryEntry("assistant", text)
            IN /\ conversation_history' = Appended(conversation_history, entry)
               /\ req' = [req EXCEPT ![i].pc = "done",
                                     ![i].appended = Append(@, entry),
                                     ![i].response = ChatResponse(text)]
         /\ Ran(Step("chat_resume", i))
    /\ UNCHANGED <<env, powerbi_token_info, app, dax_agent, notApp>>

\* main.py:151, 162-163: the agent call raised
ChatAgentRaises ==
    /\ \E i \in DOMAIN req :
         /\ req[i].pc = "awaiting"
         /\ req' = [req EXCEPT ![i].pc = "done",
                       ![i].response = ChatExcept(
                           [status |-> 500, text |-> <<"ServiceResponseException">>])]
         /\ Ran(Step("chat_resume", i))
    /\ UNCHANGED <<env, powerbi_token_info, app, dax_agent, conversation_history, notApp>>

\* variant of ClearedHistory: `conversation_history = []` binds a local name
ClearedHistoryKept(history) == history

\* main.py:173: conversation_history.clear()
ClearedHistory(history) == <<>>

\* main.py:165-168: GET /api/chat/history
GetHistory ==
    /\ app = "serving"
    /\ Len(req) < RequestCap
    /\ req' = Append(req, [NewRequest("get_history", <<>>, <<None>>)
            EXCEPT !.pc = "done",
                   !.response = [NoResponse EXCEPT !.status = 200,
                                     !.history = conversation_history]])
    /\ Ran(Step("get_history", Len(req) + 1))
    /\ UNCHANGED <<env, powerbi_token_info, app, dax_agent, conversation_history, notApp>>

\* main.py:170-174: DELETE /api/chat/history
ClearHistory ==
    /\ app = "serving"
    /\ Len(req) < RequestCap
    /\ conversation_history' = ClearedHistory(conversation_history)
    /\ req' = Append(req, [NewRequest("clear_history", <<>>, <<None>>)
            EXCEPT !.pc = "done",
                   !.response = [NoResponse EXCEPT !.status = 200,
                                     !.message = <<"Chat history cleared">>]])
    /\ Ran(Step("clear_history", Len(req) + 1))
    /\ UNCHANGED <<env, powerbi_token_info, app, dax_agent, notApp>>

\* a request to one of the Power BI endpoints, handled in one step: no
\* handler of them awaits anything that suspends (generate_embed_token uses
\* the blocking requests library).  info_before, log and calls record what
\* the handler found and did.
VisualIds == {None, "v1"}
PbiRequest(kind, visual_id, expired, info, g, response) ==
    [kind |-> kind, pc |-> "done", visual_id |-> visual_id,
     expired |-> expired, info_before |-> info, ran |-> g.ran, log |-> g.log,
     calls |-> g.calls, outcome |-> g.outcome, returned |-> g.returned,
     response |-> response]
Unserved == [status |-> 0]

\* main.py:66-72: PowerBIConfig
PowerBIConfig(embedUrl, accessToken, embedType, visualId, reportId, workspaceId) ==
    [status |-> 200, embedUrl |-> embedUrl, accessToken |-> accessToken,
     embedType |-> embedType, visualId |-> visualId, reportId |-> reportId,
     workspaceId |-> workspaceId]

\* main.py:191-200: embed_type of the generated-token branch
EmbedType(visual_id) == IF TruthyStr(visual_id) THEN "visual" ELSE "report"

\* main.py:176-228: get_powerbi_config(visual_id)
GetPowerbiConfig(info, e, visual_id) ==
    IF /\ TruthyText(InfoGet(info, "embedUrl", <<None>>))
       /\ TruthyStr(InfoGet(info, "embedToken", None))
    THEN PowerBIConfig(info["embedUrl"].val, info["embedToken"].val,
                       EmbedType(visual_id), visual_id,
                       InfoGet(info, "reportId", None),
                       InfoGet(info, "workspaceId", None))
    ELSE LET embed_url == Getenv(e, "POWERBI_EMBED_URL", "")
             access_token == Getenv(e, "POWERBI_ACCESS_TOKEN", "")
         IN IF TruthyStr(embed_url) /\ TruthyStr(access_token)
            THEN PowerBIConfig(<<embed_url>>, access_token, "report", None,
                               None, None)
            ELSE [status |-> 500,
                  detail |-> "Power BI configuration not available."]

\* main.py:230-251: refresh_powerbi_token(), given what the generation it
\* awaited left behind.  generate_powerbi_token raises nothing, so the
\* except clause of lines 249-251 has nothing to catch.
RefreshResponse(info) ==
    IF TruthyStr(InfoGet(info, "embedToken", None))
    THEN [status |-> 200, success |-> TRUE,
          message |-> "Power BI token refreshed successfully",
          tokenExpiry |-> InfoGet(info, "tokenExpiry", "Unknown"),
          reportName |-> InfoGet(info, "reportName", "Unknown")]
    ELSE [status |-> 200, success |-> FALSE,
          message |-> "Failed to refresh Power BI token"]

\* main.py:253-274: get_powerbi_status()
StatusResponse(info, e) ==
    [status |-> 200,
     tokenGenerated |-> TruthyStr(InfoGet(info, "embedToken", None)),
     reportName |-> InfoGet(info, "reportName", "Unknown"),
     reportId |-> InfoGet(info, "reportId", "Not set"),
     workspaceId |-> InfoGet(info, "workspaceId", "My Workspace"),
     tokenExpiry |-> InfoGet(info, "tokenExpiry", "Unknown"),
     hasEmbedUrl |-> TruthyText(InfoGet(info, "embedUrl", <<None>>)),
     visualsAvailable |-> Len(InfoGet(info, "visuals", <<>>))]

\* main.py:276-306: get_powerbi_visuals()
VisualsResponse(info) ==
    IF ~TruthyStr(InfoGet(info, "embedToken", None))
    THEN [status |-> 404, detail |-> "No Power BI report loaded."]
    ELSE LET pages_data == InfoGet(info, "pages", <<>>)
         IN IF pages_data = <<>>
            THEN [status |-> 404, detail |-> "No pages found in the report."]
            ELSE [status |-> 200, totalPages |-> Len(pages_data),
                  pagesInfo |-> pages_data, note |-> VisualDiscoveryNote]

CanServePbi == app = "serving" /\ Len(req) < MaxPbiReq

\* main.py:176-306: what a handler that only reads the cached descriptor
\* leaves in it.  No handler compares tokenExpiry with the clock; expired
\* says whether the request arrives after the cached token's expiry.
CachedAfterReadRenewing(info, expired) ==
    IF expired THEN InitialTokenInfo ELSE info
CachedAfterRead(info, expired) == info

\* main.py:123-130: GET /
GetRoot ==
    /\ CanServePbi
    /\ req' = Append(req, PbiRequest("root", None, FALSE, powerbi_token_info,
                                     NoGeneration,
                                     [status |-> 200, message |-> "ok"]))
    /\ Ran(Step("root", Len(req) + 1))
    /\ UNCHANGED <<env, powerbi_token_info, app, dax_agent,
                   conversation_history, notApp>>

\* main.py:176-228: GET /api/powerbi/config
GetConfig ==
    /\ CanServePbi
    /\ \E visual_id \in VisualIds, expired \in BOOLEAN :
         /\ req' = Append(req, PbiRequest("config", visual_id, expired,
                                          powerbi_token_info, NoGeneration,
                                          GetPowerbiConfig(powerbi_token_info,
                                                           env, visual_id)))
         /\ powerbi_token_info' = CachedAfterRead(powerbi_token_info, expired)
    /\ Ran(Step("config", Len(req) + 1))
    /\ UNCHANGED <<env, app, dax_agent, conversation_history, notApp>>

\* main.py:230-251: GET /api/powerbi/refresh-token
RefreshToken ==
    /\ CanServePbi
    /\ \E w \in AppWorlds :
         LET g == GeneratePowerbiToken(powerbi_token_info, env, w, Len(req) + 2)
         IN /\ powerbi_token_info' = g.info
            /\ req' = Append(req, PbiRequest("refresh", None, FALSE,
                                             powerbi_token_info, g,
                                             RefreshResponse(g.info)))
    /\ Ran(Step("refresh", Len(req) + 1))
    /\ UNCHANGED <<env, app, dax_agent, conversation_history, notApp>>

\* main.py:253-274: GET /api/powerbi/status
GetStatus ==
    /\ CanServePbi
    /\ \E expired \in BOOLEAN :
         /\ req' = Append(req, PbiRequest("status", None, expired,
                                          powerbi_token_info, NoGeneration,
                                          StatusResponse(powerbi_token_info,
                                                         env)))
         /\ powerbi_token_info' = CachedAfterRead(powerbi_token_info, expired)
    /\ Ran(Step("status", Len(req) + 1))
    /\ UNCHANGED <<env, app, dax_agent, conversation_history, notApp>>

\* main.py:276-306: GET /api/powerbi/visuals
GetVisuals ==
    /\ CanServePbi
    /\ \E expired \in BOOLEAN :
         /\ req' = Append(req, PbiRequest("visuals", None, expired,
                                          powerbi_token_info, NoGeneration,
                                          VisualsResponse(powerbi_token_info)))
         /\ powerbi_token_info' = CachedAfterRead(powerbi_token_info, expired)
    /\ Ran(Step("visuals", Len(req) + 1))
    /\ UNCHANGED <<env, app, dax_agent, conversation_history, notApp>>

\* a request to an endpoint that needs no agent, sent to a process that
\* never came to serve: nothing answers it
NonAgentKinds == {"root", "get_history", "config", "status", "refresh"}
RequestRefused ==
    /\ app \in {"crashed", "startup_failed"}
    /\ Len(req) < MaxPbiReq
    /\ \E kind \in NonAgentKinds :
         req' = Append(req, PbiRequest(kind, None, FALSE, powerbi_token_info,
                                       NoGeneration, Unserved))
    /\ UNCHANGED <<env, powerbi_token_info, app, dax_agent,
                   conversation_history, prev_op, notApp>>

\* the environments of the Power BI endpoints
PbiInit ==
    /\ env \in {Env(endpoint, report_id, workspace_id, fallback) :
                  endpoint \in EndpointValues, report_id \in EnvReportIds,
                  workspace_id \in EnvWorkspaceIds, fallback \in EnvFallbacks}
    /\ app = "importing"
    /\ dax_agent = [_credential |-> "None", _client |-> "None"]
    /\ conversation_history = <<>>
    /\ powerbi_token_info = InitialTokenInfo
    /\ req = <<>>
    /\ prev_op = NoOps

\* the environments of the chat endpoints: no report to generate a token for
AppInit ==
    /\ env \in {Env(endpoint, None, None, CHOOSE f \in EnvFallbacks :
                                             f.POWERBI_EMBED_URL = None) :
                  endpoint \in EndpointValues}
    /\ app = "importing"
    /\ dax_agent = [_credential |-> "None", _client |-> "None"]
    /\ conversation_history = <<>>
    /\ powerbi_token_info = InitialTokenInfo
    /\ req = <<>>
    /\ prev_op = NoOps

-----------------------------------------------------------------------------
(* Translators: BaseAgent (ai/agents/base_agent.py) and its subclasses     *)
(* DaxAgent (ai/agents/dax_agent.py) and VisualCreatorAgent                *)
(* (ai/agents/visual_creator_agent.py), with models/visual_models.py       *)

AgentKinds == {"DaxAgent", "VisualCreatorAgent"}
\* self._credential / self._client: 0 is None, otherwise the position in
\* resources of the object start() created
NoResource == 0
Resource(kind) == [kind |-> kind, state |-> "open"]
\* how start() can end (base_agent.py:38-44)
StartOutcomes == {"credential_fails", "client_fails", "completed"}

JBool(b) == [t |-> "bool", b |-> b]

\* models/visual_models.py:5-34: the fixed schema (extra keys forbidden)
VisualTypes ==
    {"columnChart", "barChart", "pieChart", "lineChart", "areaChart",
     "donutChart"}
DataRoles == {"Category", "Y", "Series", "Tooltips"}
IsStr(v) == v.t = "str"
IsBool(v) == v.t = "bool"
IsDataField(v) ==
    /\ v.t = "dict"
    /\ DOMAIN v.kv = {"dataRole", "table", "column", "isMeasure"}
    /\ IsStr(v.kv["dataRole"]) /\ v.kv["dataRole"].s \in DataRoles
    /\ IsStr(v.kv["table"]) /\ IsStr(v.kv["column"])
    /\ IsBool(v.kv["isMeasure"])
IsVisualProperties(v) ==
    /\ v.t = "dict"
    /\ DOMAIN v.kv = {"showLegend", "showXAxis", "showYAxis"}
    /\ \A k \in DOMAIN v.kv : IsBool(v.kv[k])
SatisfiesSchema(v) ==
    /\ v.t = "dict"
    /\ DOMAIN v.kv = {"visualType", "title", "dataFields", "properties"}
    /\ IsStr(v.kv["visualType"]) /\ v.kv["visualType"].s \in VisualTypes
    /\ IsStr(v.kv["title"])
    /\ v.kv["dataFields"].t = "list"
    /\ \A i \in DOMAIN v.kv["dataFields"].xs :
         IsDataField(v.kv["dataFields"].xs[i])
    /\ IsVisualProperties(v.kv["properties"])

\* what the agent may answer with: documents that fit the schema and
\* documents that miss it in one place each
DataFieldOf(role, isMeasure) ==
    JDict([dataRole |-> JStr(role), table |-> JStr("Orders"),
           column |-> JStr("Region"), isMeasure |-> isMeasure])
PropertiesOf(extra) ==
    IF extra
    THEN JDict([showLegend |-> JBool(TRUE), showXAxis |-> JBool(TRUE),
                showYAxis |-> JBool(FALSE), color |-> JStr("red")])
    ELSE JDict([showLegend |-> JBool(TRUE), showXAxis |-> JBool(TRUE),
                showYAxis |-> JBool(FALSE)])
ConfigOf(visualType, title, fields, properties) ==
    JDict([visualType |-> visualType, title |-> title,
           dataFields |-> JList(fields), properties |-> properties])
GoodField == DataFieldOf("Category", JBool(FALSE))
Documents ==
    {ConfigOf(JStr("barChart"), JStr("Sales"), <<GoodField>>, PropertiesOf(FALSE)),
     ConfigOf(JStr("pieChart"), JStr(""), <<>>, PropertiesOf(FALSE)),
     ConfigOf(JStr("scatterChart"), JStr("Sales"), <<GoodField>>, PropertiesOf(FALSE)),
     ConfigOf(JStr("barChart"), JNum(7), <<GoodField>>, PropertiesOf(FALSE)),
     ConfigOf(JStr("barChart"), JStr("Sales"),
              <<DataFieldOf("Values", JBool(FALSE))>>, PropertiesOf(FALSE)),
     ConfigOf(JStr("barChart"), JStr("Sales"),
              <<GoodField, DataFieldOf("Y", JStr("yes"))>>, PropertiesOf(FALSE)),
     ConfigOf(JStr("barChart"), JStr("Sales"), <<GoodField>>, PropertiesOf(TRUE)),
     JDict([visualType |-> JStr("barChart"), title |-> JStr("Sales")]),
     JStr("a bar chart of sales"),
     JNull}

\* result.value of the agent run (visual_creator_agent.py:86-88): an
\* instance of VisualConfig, which pydantic builds only from a document that
\* validates, or a value of another class holding any document
Value(cls, data) == [cls |-> cls, data |-> data]
ClassOf(d) == CASE d.t = "dict" -> "dict" [] d.t = "str" -> "str"
                [] OTHER -> "NoneType"
RunValues ==
    {Value("VisualConfig", d) : d \in {x \in Documents : SatisfiesSchema(x)}}
      \cup {Value(ClassOf(d), d) : d \in Documents}

\* variant of IsVisualConfig: any value that is not None passes
IsNotNone(value) == value.cls # "NoneType"

\* visual_creator_agent.py:88: isinstance(result.value, VisualConfig)
IsVisualConfig(value) == value.cls = "VisualConfig"

\* visual_creator_agent.py:88-93: what generate_visual_config does with the
\* value of the run
VisualConfigResult(value) ==
    IF IsVisualConfig(value)
    THEN [outcome |-> "returned", returned |-> value, exc |-> None]
    ELSE [outcome |-> "raised", returned |-> Value("NoneType", JNull),
          exc |-> "ValueError: Invalid visual config response from agent"]

\* dax_agent.py:54-56: generate_dax_query returns result.text
DaxQueryResult(text) ==
    [outcome |-> "returned", returned |-> Value("str", JStr(text)), exc |-> None]

NoAgentCall ==
    [pc |-> "none", runs |-> 0, value |-> Value("NoneType", JNull),
     outcome |-> "none", returned |-> Value("NoneType", JNull), exc |-> None]

\* variant of CloseIfSet: the reference is closed without looking at it
CloseAlways(ref, res) ==
    IF ref = NoResource THEN Exc("AttributeError")
    ELSE Ok([res EXCEPT ![ref].state = "closed"])

\* base_agent.py:49-52: `if self._x: await self._x.close()`
CloseIfSet(ref, res) ==
    IF ref # NoResource THEN Ok([res EXCEPT ![ref].state = "closed"]) ELSE Ok(res)

\* base_agent.py:47-53: stop() closes the client, then the credential; the
\* close() calls themselves are taken to succeed
Stop(a, res) ==
    LET c1 == CloseIfSet(a._client, res)
    IN IF ~c1.ok THEN [outcome |-> "raised", resources |-> res]
       ELSE LET c2 == CloseIfSet(a._credential, c1.v)
            IN IF ~c2.ok THEN [outcome |-> "raised", resources |-> c1.v]
               ELSE [outcome |-> "returned", resources |-> c2.v]

\* base_agent.py:17-34: the constructor raises when the endpoint is unset
AgentConstruct ==
    /\ base_agent.state = "new"
    /\ \E kind \in AgentKinds, endpoint \in {None, "", "https://project"} :
         base_agent' =
           [base_agent EXCEPT
              !.state = IF endpoint \in {None, ""} THEN "init_failed"
                        ELSE "constructed",
              !.kind = kind]
    /\ UNCHANGED <<resources, agent_call, notAgent>>

\* base_agent.py:36-45: start(); the credential is assigned before the
\* client is constructed
AgentStart ==
    /\ base_agent.state = "constructed"
    /\ base_agent.starts < MaxStarts
    /\ \E outcome \in StartOutcomes :
         LET n == Len(resources)
         IN /\ resources' =
                 CASE outcome = "credential_fails" -> resources
                   [] outcome = "client_fails" ->
                        Append(resources, Resource("credential"))
                   [] OTHER -> resources \o <<Resource("credential"),
                                               Resource("client")>>
            /\ base_agent' =
                 [base_agent EXCEPT
                    !.starts = @ + 1,
                    !.last = "start",
                    !.start_outcome = outcome,
                    !._credential = IF outcome = "credential_fails" THEN @
                                    ELSE n + 1,
                    !._client = IF outcome = "completed" THEN n + 2 ELSE @]
    /\ UNCHANGED <<agent_call, notAgent>>

\* base_agent.py:47-53: stop()
AgentStop ==
    /\ base_agent.state = "constructed"
    /\ LET s == Stop(base_agent, resources)
       IN /\ resources' = s.resources
          /\ base_agent' = [base_agent EXCEPT !.last = "stop",
                                              !.stop_outcome = s.outcome]
    /\ UNCHANGED <<agent_call, notAgent>>

\* base_agent.py:55-58, ai/agents/dax_agent.py:40-41 and
\* visual_creator_agent.py:71-72: `if not self._client`
ClientMissingNever(a) == FALSE
ClientMissing(a) == a._client = NoResource

\* ai/agents/dax_agent.py:38-54 and visual_creator_agent.py:71-86: a
\* translator call up to the await of agent.run
AgentCall ==
    /\ base_agent.state = "constructed"
    /\ agent_call.pc # "awaiting"
    /\ agent_call' =
         IF ClientMissing(base_agent)
         THEN [NoAgentCall EXCEPT !.pc = "done", !.outcome = "raised",
                 !.exc = "RuntimeError: not started. Call start() first."]
         ELSE [NoAgentCall EXCEPT !.pc = "awaiting", !.runs = 1]
    /\ base_agent' = [base_agent EXCEPT !.last = "call"]
    /\ UNCHANGED <<resources, notAgent>>

\* ai/agents/dax_agent.py:54-56, visual_creator_agent.py:86-93: the run
\* answered
AgentRunReturns ==
    /\ agent_call.pc = "awaiting"
    /\ base_agent._client # NoResource
    /\ resources[base_agent._client].state = "open"
    /\ \E value \in RunValues :
         LET r == IF base_agent.kind = "VisualCreatorAgent"
                  THEN VisualConfigResult(value)
                  ELSE DaxQueryResult("EVALUATE Orders")
         IN agent_call' = [agent_call EXCEPT !.pc = "done", !.value = value,
                             !.outcome = r.outcome, !.returned = r.returned,
                             !.exc = r.exc]
    /\ UNCHANGED <<base_agent, resources, notAgent>>

\* the run raised: the exception leaves the translator
AgentRunRaises ==
    /\ agent_call.pc = "awaiting"
    /\ agent_call' = [agent_call EXCEPT !.pc = "done", !.outcome = "raised",
                        !.exc = "ServiceResponseException"]
    /\ UNCHANGED <<base_agent, resources, notAgent>>

NewAgent ==
    [state |-> "new", kind |-> "DaxAgent", _credential |-> NoResource,
     _client |-> NoResource, starts |-> 0, last |-> "none",
     start_outcome |-> "none", stop_outcome |-> "none"]

AgentInit ==
    /\ base_agent = NewAgent
    /\ resources = <<>>
    /\ agent_call = NoAgentCall

-----------------------------------------------------------------------------
(* Specifications: one per component; the other components stand still     *)

TokenOff == generator = [state |-> "off", access_token |-> None]
               /\ token_call = NoTokenCall
QueryOff == config = [powerbi_workspace_id |-> None, powerbi_dataset_id |-> None]
               /\ tool = [ToolIdle EXCEPT !.pc = "off"]
ServiceOff == agent_service = [state |-> "off"] /\ chat_call = NoCall
                 /\ chat_log = <<>>
AgentOff == base_agent = [NewAgent EXCEPT !.state = "off"] /\ resources = <<>>
               /\ agent_call = NoAgentCall
AppOff == env = Env(None, None, None, CHOOSE f \in EnvFallbacks :
                                       f.POWERBI_EMBED_URL = None)
             /\ app = "off"
             /\ powerbi_token_info = InitialTokenInfo
             /\ dax_agent = [_credential |-> "None", _client |-> "None"]
             /\ conversation_history = <<>> /\ req = <<>>
             /\ prev_op = NoOps

InitQuery == ConfigInit /\ tool = ToolIdle /\ ServiceOff /\ AppOff /\ TokenOff
                /\ AgentOff
NextQuery ==
    \/ ToolCall
    \/ ToolGetToken
    \/ ToolPost
    \/ ToolPostFails
    \/ ToolReturn
SpecQuery == InitQuery /\ [][NextQuery]_vars

InitService == ServiceInit /\ QueryOff /\ AppOff /\ TokenOff /\ AgentOff
NextService ==
    \/ ServiceConstruct
    \/ ChatMock
    \/ ChatRun
    \/ ChatRunReturns
    \/ ChatRunRaises
SpecService == InitService /\ [][NextService]_vars

InitApp == AppInit /\ QueryOff /\ ServiceOff /\ TokenOff /\ AgentOff
NextApp ==
    \/ AppImport
    \/ LifespanStartup
    \/ LifespanShutdown
    \/ ChatRefused
    \/ ChatBegin
    \/ ChatAgentReturns
    \/ ChatAgentRaises
    \/ GetHistory
    \/ ClearHistory
SpecApp == InitApp /\ [][NextApp]_vars

InitPbi == PbiInit /\ QueryOff /\ ServiceOff /\ TokenOff /\ AgentOff
NextPbi ==
    \/ AppImport
    \/ LifespanStartup
    \/ LifespanShutdown
    \/ RequestRefused
    \/ GetRoot
    \/ GetConfig
    \/ RefreshToken
    \/ GetStatus
    \/ GetVisuals
SpecPbi == InitPbi /\ [][NextPbi]_vars

\* the whole request surface of main.py: the chat endpoints and the Power BI
\* endpoints of one process that has a report to generate a token for
SurfaceInit ==
    /\ env \in {Env(endpoint, "r1", None,
                     CHOOSE f \in EnvFallbacks : f.POWERBI_EMBED_URL = None) :
                  endpoint \in EndpointValues}
    /\ app = "importing"
    /\ dax_agent = [_credential |-> "None", _client |-> "None"]
    /\ conversation_history = <<>>
    /\ powerbi_token_info = InitialTokenInfo
    /\ req = <<>>
    /\ prev_op = NoOps
InitSurface == SurfaceInit /\ QueryOff /\ ServiceOff /\ TokenOff /\ AgentOff
NextSurface ==
    \/ AppImport
    \/ LifespanStartup
    \/ LifespanShutdown
    \/ ChatRefused
    \/ ChatBegin
    \/ ChatAgentReturns
    \/ ChatAgentRaises
    \/ GetHistory
    \/ ClearHistory
    \/ RequestRefused
    \/ GetRoot
    \/ GetConfig
    \/ RefreshToken
    \/ GetStatus
    \/ GetVisuals
SpecSurface == InitSurface /\ [][NextSurface]_vars

InitAgent == AgentInit /\ QueryOff /\ ServiceOff /\ AppOff /\ TokenOff
NextAgent ==
    \/ AgentConstruct
    \/ AgentStart
    \/ AgentStop
    \/ AgentCall
    \/ AgentRunReturns
    \/ AgentRunRaises
SpecAgent == InitAgent /\ [][NextAgent]_vars

InitToken == TokenInit /\ QueryOff /\ ServiceOff /\ AppOff /\ AgentOff
NextToken ==
    \/ TokenConstruct
    \/ TokenGenerate
SpecToken == InitToken /\ [][NextToken]_vars

\* the components that call a remote service on behalf of an invocation
\* (query execution, the two chat paths, the translators, the token
\* generation that startup and refresh run); each run exercises one of them
InitAll == InitQuery \/ InitService \/ InitApp \/ InitToken \/ InitAgent
NextAll ==
    \/ NextQuery
    \/ NextService
    \/ NextApp
    \/ NextToken
    \/ NextAgent
SpecAll == InitAll /\ [][NextAll]_vars

-----------------------------------------------------------------------------
(* Properties of the request surface (SpecApp)                             *)

\* a POST /api/chat that the handler took up and answered
Answered(r) == r.kind = "chat" /\ r.pc = "done" /\ r.response.status # 0

\* C1: every POST /api/chat exchange that reaches the handler with at least
\* one message appends exactly two entries to the conversation history, first
\* the entry of the user's message and then an assistant entry, whichever
\* path was taken (agent success, agent failure, agent unavailable).
C1_TwoEntriesPerExchange ==
    \A i \in DOMAIN req :
        Answered(req[i]) /\ req[i].messages # <<>>
            => /\ Len(req[i].appended) = 2
               /\ req[i].appended[1] =
                    HistoryEntry(LastMessage(req[i].messages)[1].role,
                                 LastMessage(req[i].messages)[1].content)
               /\ req[i].appended[2].role = "assistant"

\* C2: POST /api/chat with an empty messages list is answered with status
\* 400, not 500, and leaves the conversation history unchanged.
C2_EmptyMessagesIs400 ==
    \A i \in DOMAIN req :
        Answered(req[i]) /\ req[i].messages = <<>>
            => req[i].response.status = 400 /\ req[i].appended = <<>>

\* C3: with no agent configured, POST /api/chat with the single user message
\* "Hello" and no context yields a successful response whose role is
\* "assistant" and whose message contains "Hello".
C3_HelloWithoutAgent ==
    \A i \in DOMAIN req :
        /\ EndpointMissing(env)
        /\ req[i].kind = "chat" /\ req[i].pc = "done"
        /\ req[i].messages = <<[role |-> "user", content |-> <<"Hello">>]>>
        /\ req[i].context = <<None>>
        => /\ req[i].response.status = 200
           /\ req[i].response.role = "assistant"
           /\ Contains(req[i].response.message, <<"Hello">>)

\* C6: a GET /api/chat/history that directly follows a DELETE
\* /api/chat/history returns an empty messages sequence, whatever chat
\* exchanges came before the DELETE.
C6_ClearThenFetchEmpty ==
    prev_op.last.kind = "get_history" /\ prev_op.before.kind = "clear_history"
        => req[prev_op.last.i].response.history = <<>>

\* C6 witness: a completed exchange, then the clear, then the fetch
C6_Witness ==
    /\ prev_op.last.kind = "get_history" /\ prev_op.before.kind = "clear_history"
    /\ \E i \in DOMAIN req : i < prev_op.before.i /\ Len(req[i].appended) = 2
    /\ req[prev_op.last.i].response.status = 200

-----------------------------------------------------------------------------
(* Properties of the chat orchestrator (SpecService)                       *)

EndsWith(s, p) == Len(s) >= Len(p) /\ SubSeq(s, Len(s) - Len(p) + 1, Len(s)) = p

\* the text is the mock template around some message
IsMockText(text) == StartsWith(text, MockHead) /\ EndsWith(text, SetupInstructions)

\* C4: for every chat request handled while the agent is unavailable the
\* response text is a function of the input message alone: it contains the
\* literal input message and the static setup-instruction text, and two
\* requests with the same message return identical text, whatever their
\* context and whatever came before.
C4_MockDeterministic ==
    \A i \in DOMAIN chat_log :
        ~chat_log[i].agent_available
            => /\ chat_log[i].outcome = "returned"
               /\ Contains(chat_log[i].text, LastContent(chat_log[i].messages))
               /\ Contains(chat_log[i].text, SetupInstructions)
               /\ \A j \in DOMAIN chat_log :
                    /\ ~chat_log[j].agent_available
                    /\ LastContent(chat_log[j].messages)
                            = LastContent(chat_log[i].messages)
                    => chat_log[j].text = chat_log[i].text

\* C4 witness: the same non-empty message asked twice without an agent, once
\* with a context and once without
C4_Witness ==
    \E i, j \in DOMAIN chat_log :
        /\ i < j
        /\ ~chat_log[i].agent_available /\ ~chat_log[j].agent_available
        /\ LastContent(chat_log[i].messages) = <<"Hello">>
        /\ LastContent(chat_log[j].messages) = <<"Hello">>
        /\ ContextGiven(chat_log[i].context) /\ ~ContextGiven(chat_log[j].context)
        /\ chat_log[i].text = chat_log[j].text

\* C5: AgentService never propagates a failure: constructing it does not
\* raise, every chat call returns a text, and whenever the agent is missing
\* (no credentials, import or initialisation failure) or its run failed, the
\* text returned is the mock response.
C5_ChatNeverRaises ==
    /\ agent_service.state # "failed"
    /\ \A i \in DOMAIN chat_log :
        /\ chat_log[i].outcome = "returned"
        /\ chat_log[i].text # <<None>>
        /\ (~chat_log[i].agent_available \/ chat_log[i].agent_failed)
                => IsMockText(chat_log[i].text)

\* C5 witness: a call whose agent run failed and that still returned the mock
C5_Witness ==
    \E i \in DOMAIN chat_log :
        /\ chat_log[i].agent_available /\ chat_log[i].agent_failed
        /\ chat_log[i].agentCalls = 1
        /\ chat_log[i].outcome = "returned" /\ IsMockText(chat_log[i].text)

-----------------------------------------------------------------------------
(* Properties of the Query Executor (SpecQuery)                            *)

\* the call was answered by the endpoint
Posted == tool.pc = "done" /\ tool.httpCalls = 1 /\ tool.status # 0

\* the value under key k of dict d, Absent when d lacks it
Field(d, k) == IF k \in DOMAIN d.kv THEN d.kv[k] ELSE Absent
MissingOrEmpty(v) == v = Absent \/ v = JList(<<>>)
NoError(d) == Field(d, "error") = Absent \/ ~Truthy(Field(d, "error"))

\* an identifier that the environment leaves unset, or sets to nothing
Unset(id) == id = None \/ id = ""

\* C7: when the workspace or the dataset identifier is unset the call
\* returns a text beginning with "Error:" without raising, and neither asks
\* for a credential token nor sends an HTTP request.
C7_ConfigErrorNoNetwork ==
    (Unset(config.powerbi_workspace_id) \/ Unset(config.powerbi_dataset_id))
        => /\ tool.credCalls = 0 /\ tool.httpCalls = 0
           /\ tool.pc \in {"idle", "done"}
           /\ tool.pc = "done"
                => tool.outcome = "returned" /\ StartsWith(tool.text, <<"Error:">>)

\* C7 witness: the call has returned with only the dataset identifier unset
C7_Witness ==
    /\ tool.pc = "done"
    /\ config.powerbi_workspace_id = "id-1" /\ config.powerbi_dataset_id = None
    /\ tool.outcome = "returned"

\* C8: for a 200 response carrying no in-band error, a missing or empty
\* results list returns exactly "No results returned", a missing or empty
\* tables list exactly "No tables returned", a missing or empty rows list
\* exactly "No rows returned", and a non-empty row list its serialisation.
C8_UnwrapStages ==
    Posted /\ tool.status = 200 /\ tool.body.t = "dict" /\ NoError(tool.body)
    => LET results == Field(tool.body, "results")
           q0 == results.xs[1]
           tables == Field(q0, "tables")
           t0 == tables.xs[1]
           rows == Field(t0, "rows")
           answer == [outcome |-> tool.outcome, text |-> tool.text]
       IN IF MissingOrEmpty(results)
          THEN answer = Returned(<<"No results returned">>)
          ELSE results.t = "list" /\ q0.t = "dict" /\ NoError(q0)
               => IF MissingOrEmpty(tables)
                  THEN answer = Returned(<<"No tables returned">>)
                  ELSE tables.t = "list" /\ t0.t = "dict"
                       => IF MissingOrEmpty(rows)
                          THEN answer = Returned(<<"No rows returned">>)
                          ELSE rows.t = "list"
                               => /\ tool.outcome = "returned"
                                  /\ tool.text = Dumps(rows)
                                  /\ Head(tool.text) = "[" /\ Len(tool.text) > 2

\* C8 witness: a 200 response with results[0].tables[0].rows = []
C8_Witness ==
    /\ Posted /\ tool.status = 200
    /\ tool.body = JDict([k \in {"results"} |->
            JList(<<JDict([j \in {"tables"} |->
                JList(<<JDict([l \in {"rows"} |-> JList(<<>>)])>>)])>>)])
    /\ tool.text = <<"No rows returned">>

\* C9: the call never raises on the shape of a 200 response's JSON object:
\* whatever lies under error, results, tables and rows, it returns a text.
C9_NeverRaisesOnShape ==
    Posted /\ tool.status = 200 /\ tool.body.t = "dict"
        => tool.outcome = "returned"

\* the text is the response body given back as an error
IsHttpErrorText(text) == StartsWith(text, HttpErrorPrefix)

\* C10 as stated: the body is returned as an error text exactly when the
\* status is not a 2xx one.
C10_ErrorIffNon2xx ==
    Posted => (IsHttpErrorText(tool.text) <=> tool.status \notin 200..299)

\* C10 as amended: the body is returned as an error text exactly when the
\* status is not 200 (201 and 204 included); for status 200 a JSON body is
\* unwrapped.
C10_ErrorIffNot200 ==
    Posted
        => /\ IsHttpErrorText(tool.text) <=> tool.status # 200
           /\ tool.status # 200
                => /\ tool.outcome = "returned"
                   /\ tool.text = HttpErrorPrefix \o ResponseText(tool.body)
           /\ tool.status = 200 /\ tool.body # JRaw
                => [outcome |-> tool.outcome, text |-> tool.text]
                        = UnwrapResult(tool.body)

\* C10 witness: a 201 response whose body came back as the error text
C10_Witness ==
    /\ Posted /\ tool.status = 201
    /\ tool.outcome = "returned" /\ IsHttpErrorText(tool.text)
    /\ tool.body.t = "dict" /\ ~MissingOrEmpty(Field(tool.body, "results"))

-----------------------------------------------------------------------------
(* Properties of the Token Service (SpecToken)                             *)

Called(c, calls) == \E i \in DOMAIN calls : calls[i] = c
TimesCalled(c, calls) == Cardinality({i \in DOMAIN calls : calls[i] = c})

\* the token issuance POST of the last call was sent and answered 200 with
\* a token
IssuanceSucceeded(tc) ==
    /\ tc.pc = "done"
    /\ Called(PostGenerateToken, tc.result.calls)
    /\ ~tc.world.post.raises
    /\ tc.world.post.status = 200
    /\ TruthyStr(DictGet(tc.world.post.json, "token", None))

\* the report details request failed: it raised or was answered with
\* another status than 200
ReportFetchFailed(tc) == tc.world.report.raises \/ tc.world.report.status # 200

\* C11: when the token issuance succeeds and the report details fetch then
\* fails, generate_embed_token does not raise and returns a descriptor with
\* a non-empty embedToken and the embedUrl synthesized from the report id
\* and, when given, the workspace id.
C11_DegradesWhenReportFetchFails ==
    (IssuanceSucceeded(token_call) /\ ReportFetchFailed(token_call))
    => /\ token_call.result.outcome = "returned"
       /\ TruthyStr(DictGet(token_call.result.value, "embedToken", None))
       /\ DictGet(token_call.result.value, "embedUrl", <<None>>)
            = SynthesizedEmbedUrl(token_call.report_id, token_call.workspace_id)

\* the last call had to fetch the Azure access token and the fetch failed
CredentialFailed(tc) ==
    tc.pc = "done" /\ ~TruthyStr(tc.cached) /\ tc.world.cred # "token"

\* C12: when the credential fetch fails, generate_embed_token raises to its
\* caller: it does not return the empty descriptor of a rejected issuance
\* (nor any other), and it sends no token issuance POST.
C12_CredentialFailurePropagates ==
    CredentialFailed(token_call)
    => /\ token_call.result.outcome = "raised"
       /\ token_call.result.exc # <<>>
       /\ ~Called(PostGenerateToken, token_call.result.calls)
C12_Witness ==
    /\ CredentialFailed(token_call)
    /\ token_call.world.cred = "auth_error"
    /\ token_call.result.outcome = "raised"
    /\ token_call.result.calls = <<GetTokenCall>>

\* C13: every non-empty descriptor that generate_embed_token returns, full
\* or degraded, has an empty visual list together with the note that visual
\* discovery needs the client.
C13_EmptyVisualsWithNote ==
    (/\ token_call.pc = "done"
     /\ token_call.result.outcome = "returned"
     /\ DOMAIN token_call.result.value # {})
    => /\ DictGet(token_call.result.value, "visuals", <<None>>) = <<>>
       /\ DictGet(token_call.result.value, "visualDiscoveryNote", None)
            = VisualDiscoveryNote

-----------------------------------------------------------------------------
(* Properties of the Power BI endpoints (SpecPbi)                          *)

Served(r) == r.pc = "done" /\ r.response.status # 0
\* a generated embed token was cached when the handler of r ran
TokenCached(r) == TruthyStr(InfoGet(r.info_before, "embedToken", None))
\* the fallback URL and token are both set in the environment
FallbackSet(e) ==
    TruthyStr(e.POWERBI_EMBED_URL) /\ TruthyStr(e.POWERBI_ACCESS_TOKEN)

\* C14: GET /api/powerbi/config answers with a PowerBIConfig whenever a
\* generated embed token is cached or the fallback URL and token are both
\* set (so 500 only if neither is available), and the embedType of the
\* answer is "visual" exactly when a visual_id was supplied.
C14_ConfigAnswers ==
    \A i \in DOMAIN req :
        (req[i].kind = "config" /\ Served(req[i]))
        => /\ (TokenCached(req[i]) \/ FallbackSet(env))
                => req[i].response.status = 200
           /\ req[i].response.status = 200
                => (req[i].response.embedType = "visual"
                        <=> TruthyStr(req[i].visual_id))

\* C15: GET /api/powerbi/refresh-token answers 500 when the generation it
\* triggered failed with an error, and otherwise answers with the success
\* shape carrying tokenExpiry and reportName.
C15_RefreshFailureIs500 ==
    \A i \in DOMAIN req :
        (req[i].kind = "refresh" /\ Served(req[i]))
        => IF req[i].log = LogError
           THEN req[i].response.status = 500
           ELSE /\ req[i].response.status = 200
                /\ {"success", "tokenExpiry", "reportName"}
                      \subseteq DOMAIN req[i].response

\* C16: with AZURE_AI_PROJECT_ENDPOINT unset the process still comes up, and
\* every request to an endpoint that needs no agent (liveness, history,
\* Power BI config, status, refresh) is served.
C16_NonAgentPartsServe ==
    EndpointMissing(env)
    => /\ app # "crashed"
       /\ \A i \in DOMAIN req :
            req[i].kind \in NonAgentKinds => Served(req[i])

\* the fields of the descriptor a reader may hand out
DescriptorFields ==
    {"embedToken", "embedUrl", "reportId", "workspaceId", "tokenExpiry"}
\* the generations whose values of these fields info holds
GenerationsIn(info) == {info[k].gen : k \in DescriptorFields \cap DOMAIN info}
\* the fields of these that the answer of a reader carries, as named in
\* powerbi_token_info
Carried(r) ==
    CASE r.kind = "config" /\ r.response.status = 200
           /\ r.response.reportId # None ->
             [embedToken |-> r.response.accessToken,
              embedUrl |-> r.response.embedUrl,
              reportId |-> r.response.reportId,
              workspaceId |-> r.response.workspaceId]
      [] r.kind = "status" ->
             [reportId |-> r.response.reportId,
              workspaceId |-> r.response.workspaceId,
              tokenExpiry |-> r.response.tokenExpiry]
      [] OTHER -> EmptyDict

\* C20: whatever refreshes ran before and between them, each answer of the
\* config, status and visuals endpoints is built from a descriptor whose
\* embedToken, embedUrl, reportId, workspaceId and tokenExpiry were all
\* written by one generation, and carries the values of that generation.
C20_ReadersSeeOneGeneration ==
    \A i \in DOMAIN req :
        (req[i].kind \in {"config", "status", "visuals"} /\ Served(req[i]))
        => \E g \in 0..(MaxPbiReq + 1) :
             /\ GenerationsIn(req[i].info_before) \subseteq {g}
             /\ \A k \in DOMAIN Carried(req[i]) :
                  /\ k \in DOMAIN req[i].info_before
                  /\ req[i].info_before[k] = Written(Carried(req[i])[k], g)
C20_Witness ==
    \E i \in DOMAIN req :
        /\ i > 1
        /\ req[i].kind = "config" /\ req[i].response.status = 200
        /\ req[i - 1].kind = "refresh"
        /\ GenerationsIn(req[i - 1].info_before) = {1}
        /\ GenerationsIn(req[i].info_before) = {i}
        /\ req[i].response.accessToken = "tok"

-----------------------------------------------------------------------------
(* Properties of the translators (SpecAgent)                               *)

\* C17: stop() is safe after any outcome of start(): when stop() was the
\* last life-cycle call and start() had been called at most once (never,
\* failed before or after acquiring the credential, or completed), stop()
\* returned without raising and every resource start() created is closed.
C17_StopSafe ==
    (base_agent.last = "stop" /\ base_agent.starts <= 1)
    => /\ base_agent.stop_outcome = "returned"
       /\ \A i \in DOMAIN resources : resources[i].state = "closed"
C17_Witness ==
    /\ base_agent.last = "stop"
    /\ base_agent.starts = 1
    /\ base_agent.start_outcome = "client_fails"
    /\ base_agent._client = NoResource
    /\ base_agent.stop_outcome = "returned"
    /\ resources = <<[kind |-> "credential", state |-> "closed"]>>

\* C18: generate_visual_config returns a value only if the run produced a
\* VisualConfig that satisfies the fixed schema, and then returns that very
\* value; for every other output of the run it raises and returns nothing.
C18_ValidateOrReject ==
    (base_agent.kind = "VisualCreatorAgent" /\ agent_call.pc = "done")
    => /\ agent_call.outcome = "returned"
            => /\ agent_call.value.cls = "VisualConfig"
               /\ SatisfiesSchema(agent_call.value.data)
               /\ agent_call.returned = agent_call.value
       /\ ~(/\ agent_call.value.cls = "VisualConfig"
            /\ SatisfiesSchema(agent_call.value.data))
            => /\ agent_call.outcome = "raised"
               /\ agent_call.returned = Value("NoneType", JNull)
C18_Witness ==
    /\ base_agent.kind = "VisualCreatorAgent"
    /\ agent_call.pc = "done"
    /\ agent_call.runs = 1
    /\ agent_call.value.cls = "dict"
    /\ SatisfiesSchema(agent_call.value.data)
    /\ agent_call.outcome = "raised"
    /\ agent_call.exc = "ValueError: Invalid visual config response from agent"

-----------------------------------------------------------------------------
(* Properties of every component that calls a remote service (SpecAll)     *)

RemoteCalls == {GetTokenCall, PostGenerateToken, GetReport, GetPages}
AtMostOnceEach(calls) == \A c \in RemoteCalls : TimesCalled(c, calls) <= 1

\* C19: no invocation repeats a remote call, also after a failure: at most
\* one agent run per chat, DAX or visual request, one credential fetch and
\* one POST per query execution, and one credential fetch, one issuance
\* POST, one report GET and one pages GET per generate_embed_token.
C19_NoRetries ==
    /\ tool.credCalls <= 1 /\ tool.httpCalls <= 1
    /\ chat_call.agentCalls <= 1
    /\ \A i \in DOMAIN chat_log : chat_log[i].agentCalls <= 1
    /\ \A i \in DOMAIN req :
         req[i].kind = "chat" => req[i].agent_runs <= 1
    /\ agent_call.runs <= 1
    /\ AtMostOnceEach(token_call.result.calls)
C19_Witness ==
    /\ token_call.pc = "done"
    /\ ~token_call.world.post.raises /\ token_call.world.post.status = 401
    /\ token_call.result.outcome = "returned"
    /\ token_call.result.calls = <<GetTokenCall, PostGenerateToken>>

-----------------------------------------------------------------------------
(* Properties of the whole request surface (SpecSurface)                   *)

ReadKinds == {"config", "status", "visuals"}
\* the step is the startup of the process
IsStartupStep == app = "startup" /\ app' # "startup"
\* the step is the handling of one GET /api/powerbi/refresh-token
IsRefreshStep ==
    /\ Len(req') = Len(req) + 1
    /\ req'[Len(req')].kind = "refresh"
\* no read handler ran a token generation or made a remote call
ReadsGenerateNothing ==
    \A i \in DOMAIN req :
      req[i].kind \in ReadKinds => ~req[i].ran /\ req[i].calls = <<>>

\* C21: the cached token descriptor is written only by startup and by
\* GET /api/powerbi/refresh-token: every step of any other handler (config,
\* status, visuals, every chat endpoint) leaves it unchanged, and a read
\* generates no token, also when it arrives after the cached token's expiry.
C21_OnlyStartupAndRefreshWrite ==
    /\ []ReadsGenerateNothing
    /\ [][powerbi_token_info' # powerbi_token_info
            => IsStartupStep \/ IsRefreshStep]_vars
C21_Witness ==
    \E i, j \in DOMAIN req :
      /\ req[i].kind \in ReadKinds
      /\ req[i].expired
      /\ TruthyStr(InfoGet(req[i].info_before, "embedToken", None))
      /\ powerbi_token_info = req[i].info_before
      /\ req[j].kind = "chat" /\ req[j].pc = "done"
      /\ req[j].response.status = 200

-----------------------------------------------------------------------------
(* Properties of the conversation history under concurrent requests        *)
(* (SpecApp)                                                                *)

IsPrefix(s, t) == Len(s) <= Len(t) /\ SubSeq(t, 1, Len(s)) = s
\* the step is the handling of one DELETE /api/chat/history
IsClearStep ==
    /\ Len(req') = Len(req) + 1
    /\ req'[Len(req')].kind = "clear_history"

\* C22: the conversation history is append-only between resets: every step
\* other than DELETE /api/chat/history leaves the earlier history as a prefix
\* of the later one (nothing removed, reordered or modified), and a non-empty
\* history becomes empty only in a DELETE /api/chat/history step.
C22_AppendOnlyUntilReset ==
    [][/\ ~IsClearStep => IsPrefix(conversation_history, conversation_history')
       /\ (conversation_history # <<>> /\ conversation_history' = <<>>)
            => IsClearStep]_vars
C22_Witness ==
    /\ Len(req) = 3
    /\ req[1].kind = "chat" /\ req[1].pc = "done" /\ Len(req[1].appended) = 2
    /\ req[2].kind = "clear_history"
    /\ req[3].kind = "chat" /\ req[3].pc = "done"
    /\ conversation_history = req[3].appended
    /\ Len(conversation_history) = 2

-----------------------------------------------------------------------------
(* The per-request state machine of AgentService.chat (SpecService)         *)

\* the text the agent was run with is the latest message, with the context
\* in front of it when one was given
MergedInFront(e) ==
    IF ContextGiven(e.context)
    THEN /\ StartsWith(e.sent, <<"Power BI Context: ">> \o e.context)
         /\ EndsWith(e.sent, LastContent(e.messages))
         /\ Len(e.sent) = Len(e.context) + Len(LastContent(e.messages)) + 2
    ELSE e.sent = LastContent(e.messages)
ChatStateMachine(e) ==
    /\ e.agent_available = (agent_service.agent # "None")
    /\ ~e.agent_available
         => /\ e.agentCalls = 0
            /\ e.outcome = "returned"
            /\ e.text = MockResponse(LastContent(e.messages))
    /\ e.agent_available
         => /\ e.agentCalls = 1
            /\ MergedInFront(e)
            /\ e.outcome = "returned"
            /\ IF e.agent_failed
               THEN IsMockText(e.text)
               ELSE e.reply # <<None>> /\ e.text = e.reply

\* C23: each chat request runs the same state machine.  Without an agent it
\* returns the mock response and makes no agent call.  With an agent it
\* merges the context (when given) in front of the latest message, makes one
\* agent call, and returns either the agent's text or, after a failure, the
\* mock response.  No request changes whether the agent is available.
C23_ChatStateMachine ==
    /\ [](\A i \in DOMAIN chat_log : ChatStateMachine(chat_log[i]))
    /\ [][agent_service.state = "ready"
            => agent_service'.agent = agent_service.agent]_vars
C23_Witness ==
    /\ Len(chat_log) = 2
    /\ chat_log[1].agent_available /\ chat_log[1].agent_failed
    /\ IsMockText(chat_log[1].text)
    /\ chat_log[2].agent_available /\ ~chat_log[2].agent_failed
    /\ ContextGiven(chat_log[2].context)
    /\ LastContent(chat_log[2].messages) # <<>>
    /\ chat_log[2].text = chat_log[2].reply
    /\ chat_log[2].agentCalls = 1

-----------------------------------------------------------------------------
(* An unavailable agent client, in the translators and in the chat          *)
(* orchestrator (SpecAll)                                                   *)

NotStartedText == "RuntimeError: not started. Call start() first."

\* C24: with no agent client (start() never called, or failed before the
\* client was made) a call of the Dax or Visual translator raises the
\* 'not started' error, runs no agent and returns nothing, while a chat call
\* of the orchestrator without an agent returns the mock response.
C24_TranslatorsRaiseChatFallsBack ==
    /\ (base_agent.last = "call" /\ base_agent._client = NoResource)
         => /\ agent_call.pc = "done"
            /\ agent_call.outcome = "raised"
            /\ agent_call.exc = NotStartedText
            /\ agent_call.runs = 0
            /\ agent_call.returned = Value("NoneType", JNull)
    /\ \A i \in DOMAIN chat_log :
         ~chat_log[i].agent_available
           => /\ chat_log[i].agentCalls = 0
              /\ chat_log[i].outcome = "returned"
              /\ IsMockText(chat_log[i].text)
C24_Witness ==
    /\ base_agent.kind = "VisualCreatorAgent"
    /\ base_agent.last = "call"
    /\ base_agent.starts = 1
    /\ base_agent.start_outcome = "client_fails"
    /\ base_agent._client = NoResource
    /\ agent_call.pc = "done"
    /\ agent_call.exc = NotStartedText

-----------------------------------------------------------------------------
(* Interleavings of the chat handler with itself and with the reset         *)
(* (SpecApp)                                                                *)

\* no chat request failed after it stored its user entry, and nothing was
\* reset: what is left to disturb the history is the interleaving alone
NoChatFailed ==
    \A i \in DOMAIN req :
      (req[i].kind = "chat" /\ req[i].pc = "done")
        => Len(req[i].appended) \in {0, 2}
NoReset == \A i \in DOMAIN req : req[i].kind # "clear_history"
\* complete user/assistant pairs, then at most pending user entries
PairsThenPending(history) ==
    \A k \in DOMAIN history :
      history[k].role = "user"
        => \/ k < Len(history) /\ history[k + 1].role = "assistant"
           \/ \A j \in k..Len(history) : history[j].role = "user"

\* C25: with several POST /api/chat requests in flight every stored user
\* entry is immediately followed by the assistant reply of its own request:
\* the history is complete user/assistant pairs, then at most pending user
\* entries.
C25_PairsStayTogether ==
    (NoChatFailed /\ NoReset) => PairsThenPending(conversation_history)

CountRole(history, role, k) ==
    Cardinality({j \in 1..k : history[j].role = role})
\* every assistant entry has its user entry before it
NoOrphanReply(history) ==
    \A k \in DOMAIN history :
      history[k].role = "assistant"
        => CountRole(history, "assistant", k) <= CountRole(history, "user", k)

\* C26: a DELETE /api/chat/history that runs while a chat request is
\* suspended at its agent call leaves no orphan: the history never holds an
\* assistant entry whose user entry the reset removed.
C26_NoOrphanAfterReset == NoOrphanReply(conversation_history)

-----------------------------------------------------------------------------
(* What a refresh reports and what a generation leaves in the cache         *)
(* (SpecPbi)                                                                *)

\* the generation run by the handler of r produced a new token
ProducedToken(r) ==
    /\ r.ran
    /\ r.outcome = "returned"
    /\ DOMAIN r.returned # {}
    /\ TruthyStr(DictGet(r.returned, "embedToken", None))

\* C27: GET /api/powerbi/refresh-token reports success: true only if the
\* regeneration of that same call produced a new token; a failed
\* regeneration (or an unset POWERBI_REPORT_ID) with an older token cached
\* is not reported as a success.
C27_SuccessMeansNewToken ==
    \A i \in DOMAIN req :
      (req[i].kind = "refresh" /\ Served(req[i]) /\ req[i].response.success)
        => ProducedToken(req[i])

\* the generations whose values the descriptor holds, the import's aside
StoredGenerations(info) ==
    {info[k].gen : k \in DOMAIN info} \ {0}

\* C28: once a generated token is stored, every field of the cached
\* descriptor comes from that one generation: no pages or
\* visualDiscoveryNote of an earlier generation survive a later degraded
\* descriptor, and /api/powerbi/visuals lists no pages of an earlier
\* generation.
C28_OneGenerationCached ==
    /\ Cardinality(StoredGenerations(powerbi_token_info)) <= 1
    /\ \A i \in DOMAIN req :
         (req[i].kind = "visuals" /\ Served(req[i])
            /\ req[i].response.status = 200)
           => req[i].info_before["pages"].gen
                = req[i].info_before["embedToken"].gen


\* C29: a token generation that fails (credential error, rejected issuance
\* returning an empty descriptor, a descriptor without a token, or
\* POWERBI_REPORT_ID unset) leaves every field of the cached descriptor as
\* it was, at startup and on refresh.
C29_FailedGenerationKeepsCache ==
    [][/\ (IsRefreshStep /\ ~ProducedToken(req'[Len(req')]))
            => powerbi_token_info' = powerbi_token_info
       /\ (IsStartupStep /\ ~ProducedToken(prev_op'.startup))
            => powerbi_token_info' = powerbi_token_info]_vars
C29_Witness ==
    \E i \in DOMAIN req :
      /\ req[i].kind = "refresh"
      /\ TokenCached(req[i])
      /\ req[i].outcome = "returned"
      /\ DOMAIN req[i].returned # {}
      /\ ~ProducedToken(req[i])
      /\ i = Len(req)
      /\ powerbi_token_info = req[i].info_before

-----------------------------------------------------------------------------
(* The agent lifecycle across stop() and repeated start() (SpecAgent)       *)

\* the client the agent holds was closed by stop()
ClientClosed ==
    /\ base_agent._client # NoResource
    /\ resources[base_agent._client].state = "closed"

\* C30: after stop() closed the client a translator call is rejected with
\* the 'not started' error and runs nothing on the closed client, and when
\* stop() has returned every client and credential that any start() created
\* is closed, also after more than one start().
C30_StoppedAgentRejectsCalls ==
    /\ (base_agent.last = "call" /\ ClientClosed)
         => /\ agent_call.pc = "done"
            /\ agent_call.outcome = "raised"
            /\ agent_call.exc = NotStartedText
            /\ agent_call.runs = 0
    /\ (base_agent.last = "stop" /\ base_agent.stop_outcome = "returned")
         => \A i \in DOMAIN resources : resources[i].state = "closed"

=============================================================================
